---- MODULE Spec2Model ----
(***************************************************************************)
(* Model of src/mcp_server/server.py: the four MCP tools of the Visual     *)
(* Layer server (get_all_datasets, health_check, get_dataset_info,         *)
(* search_by_labels), the module-level credentials and get_client().       *)
(*                                                                         *)
(* A Python str is a sequence of atoms.  A user-supplied or upstream text  *)
(* is a sequence of one-character atoms ("c", "a", "t"); a literal part of *)
(* an f-string is one multi-character atom.  Concatenation is \o, len() is *)
(* Len on character-level texts.                                           *)
(***************************************************************************)
EXTENDS Integers, Sequences, FiniteSets, TLC

\* ------------------------------------------------------------------ bounds
\* Number of invocation slots the host may have open.
NumCalls == 2
\* Longest dataset list the client returns in the scan specification.
MaxDatasets == 2
\* Most rows of a result table in the formatting specification.
MaxRows == 2

Procs == 1..NumCalls

\* ------------------------------------------------------------ Python values
\* A Python value: a str (s), an int (n) or None.
StrV(s) == [t |-> "str", s |-> s, n |-> 0]
IntV(n) == [t |-> "int", s |-> <<>>, n |-> n]
NoneV == [t |-> "none", s |-> <<>>, n |-> 0]

\* bool(value) as used by `not VISUAL_LAYER_API_KEY` and `if dataset_id:`.
Truthy(v) == (v.t = "str" /\ v.s # <<>>) \/ (v.t = "int" /\ v.n # 0)

DigitChar == <<"0", "1", "2", "3", "4", "5", "6", "7", "8", "9">>

RECURSIVE Digits(_)
\* str(n) for an int n >= 0: its decimal digits.
Digits(n) == IF n < 10 THEN <<DigitChar[n + 1]>> ELSE Digits(n \div 10) \o <<DigitChar[(n % 10) + 1]>>

\* str(value), as an f-string placeholder renders it.
PyStr(v) == CASE v.t = "str" -> v.s [] v.t = "int" -> Digits(v.n) [] OTHER -> <<"N", "o", "n", "e">>

\* isinstance(value, str)
IsStr(v) == v.t = "str"

UpperToLower == [c \in {"A", "B", "C", "D", "E", "F", "G", "H", "I", "J", "K", "L", "M", "N", "O", "P", "Q", "R", "S", "T", "U", "V", "W", "X", "Y", "Z"} |->
    CASE c = "A" -> "a" [] c = "B" -> "b" [] c = "C" -> "c" [] c = "D" -> "d" [] c = "E" -> "e"
      [] c = "F" -> "f" [] c = "G" -> "g" [] c = "H" -> "h" [] c = "I" -> "i" [] c = "J" -> "j"
      [] c = "K" -> "k" [] c = "L" -> "l" [] c = "M" -> "m" [] c = "N" -> "n" [] c = "O" -> "o"
      [] c = "P" -> "p" [] c = "Q" -> "q" [] c = "R" -> "r" [] c = "S" -> "s" [] c = "T" -> "t"
      [] c = "U" -> "u" [] c = "V" -> "v" [] c = "W" -> "w" [] c = "X" -> "x" [] c = "Y" -> "y"
      [] OTHER -> "z"]

\* str.lower() on a character-level text.
Lower(s) == [i \in 1..Len(s) |-> IF s[i] \in DOMAIN UpperToLower THEN UpperToLower[s[i]] ELSE s[i]]

\* `sub in text` for two str.
Contains(text, sub) == \E i \in 0..(Len(text) - Len(sub)) : SubSeq(text, i + 1, i + Len(sub)) = sub

RECURSIVE Join(_, _)
\* sep.join(parts)
Join(parts, sep) == IF parts = <<>> THEN <<>> ELSE IF Len(parts) = 1 THEN parts[1] ELSE parts[1] \o sep \o Join(Tail(parts), sep)

\* dict.get(key, default)
DictGet(d, key, default) == IF key \in DOMAIN d THEN d[key] ELSE default

\* ---------------------------------------------------------------- messages
\* An exception is modelled by str(e); a call outcome is a value or an exception.
Raised(msg) == [ok |-> FALSE, err |-> msg]
Returned == [ok |-> TRUE, err |-> <<>>]

CredentialsMessage == <<"API credentials not found. Please set VISUAL_LAYER_API_KEY and VISUAL_LAYER_API_SECRET">>

\* A check that forgets the secret.
CredentialsMissingKeyOnly(key, secret) == ~Truthy(key)

\* The condition of get_client's first `if`.
CredentialsMissing(key, secret) == ~Truthy(key) \/ ~Truthy(secret)

\* get_client(): ValueError without credentials, RuntimeError when the import
\* or the constructor of VisualLayerClient raises, the client otherwise.
get_client(key, secret, w) ==
    IF CredentialsMissing(key, secret) THEN Raised(CredentialsMessage)
    ELSE IF w.initFails THEN Raised(<<"Failed to initialize Visual Layer client: ">> \o w.initError)
    ELSE Returned

\* valid_operators of search_by_labels.
valid_operators == <<"IS", "IS_NOT", "IS_ONE_OF", "IS_NOT_ONE_OF">>

\* A validation that rejects only the empty operator.
OperatorInvalidOnlyEmpty(search_operator) == search_operator = ""

\* `search_operator not in valid_operators`
OperatorInvalid(search_operator) == \A i \in 1..Len(valid_operators) : valid_operators[i] # search_operator

\* A rejection that does not say which operator was refused.
InvalidOperatorTextNoValue(search_operator) ==
    <<"Invalid search operator. Valid options are: ">>
    \o Join([i \in 1..Len(valid_operators) |-> <<valid_operators[i]>>], <<", ">>)

\* The text returned for an operator that is not in valid_operators.
InvalidOperatorText(search_operator) ==
    <<"Invalid search operator '", search_operator, "'. Valid options are: ">>
    \o Join([i \in 1..Len(valid_operators) |-> <<valid_operators[i]>>], <<", ">>)

\* `if dataset_id is not None:` instead of the truth test.
DatasetIdNotNone(dataset_id) == dataset_id.t # "none"

\* `if dataset_id:` chooses the dataset path.
DatasetIdGiven(dataset_id) == Truthy(dataset_id)

\* The `except Exception` clauses at the tools' boundaries: each returns a text.
ReturnText(text) == [kind |-> "return", text |-> text]
NoResult == [kind |-> "none", text |-> <<>>]
Propagated(msg) == [kind |-> "raise", text |-> msg]

\* An outer handler that lets the exception through.
SearchBoundaryReraises(msg) == Propagated(msg)

\* search_by_labels, outer handler.
SearchBoundary(msg) == ReturnText(<<"Error searching datasets by labels: ">> \o msg)
\* search_by_labels, handler of the dataset path.
DatasetBoundary(dataset_id, msg) == ReturnText(<<"Error searching dataset ">> \o PyStr(dataset_id) \o <<": ">> \o msg)
\* get_all_datasets, health_check, get_dataset_info.
ListBoundary(msg) == ReturnText(<<"Error getting datasets: ">> \o msg)
HealthBoundary(msg) == ReturnText(<<"Health check failed: ">> \o msg)
InfoBoundary(msg) == ReturnText(<<"Error getting dataset info: ">> \o msg)

\* The handler a tool's get_client() failure reaches.
ToolBoundary(tool, msg) ==
    CASE tool = "search_by_labels" -> SearchBoundary(msg)
      [] tool = "get_all_datasets" -> ListBoundary(msg)
      [] tool = "health_check" -> HealthBoundary(msg)
      [] OTHER -> InfoBoundary(msg)

\* ---------------------------------------------------------------- formatting
NA == StrV(<<"N", "/", "A">>)
NoDescription == StrV(<<"No description available">>)
Ellipsis == <<".", ".", ".">>
\* The display limit of a string value in an image result.
TruncateAt == 200

\* A truncation that already cuts a value of exactly the limit.
RenderValueInclusive(value) ==
    IF IsStr(value) /\ Len(value.s) >= TruncateAt THEN SubSeq(value.s, 1, TruncateAt) \o Ellipsis
    ELSE PyStr(value)

\* `value` after the truncation of the image formatter.
RenderValue(value) ==
    IF IsStr(value) /\ Len(value.s) > TruncateAt THEN SubSeq(value.s, 1, TruncateAt) \o Ellipsis
    ELSE PyStr(value)

\* An emptiness test that never fires.
DfNeverEmpty(df) == FALSE

\* DataFrame.empty: no rows or no columns.
DfEmpty(df) == Len(df.rows) = 0 \/ Len(df.columns) = 0

RECURSIVE ColumnLines(_, _)
\* The `col: value` lines of one row, in column order.
ColumnLines(columns, row) ==
    IF columns = <<>> THEN <<>>
    ELSE <<columns[1], ": ">> \o RenderValue(DictGet(row, columns[1], NA)) \o <<"\n">> \o ColumnLines(Tail(columns), row)

\* formatted_results of the dataset path: one block per row, numbered from 1.
ImageBlocks(df) == [i \in 1..Len(df.rows) |-> <<"\nResult ">> \o Digits(i) \o <<":\n">> \o ColumnLines(df.columns, df.rows[i])]

\* The values rendered for each row and column (the successive `value`s).
RenderedValues(df) == [i \in 1..Len(df.rows) |-> [c \in {df.columns[k] : k \in 1..Len(df.columns)} |-> RenderValue(DictGet(df.rows[i], c, NA))]]

NoImagesText(label_query, search_operator, dataset_id) ==
    <<"No images found with label '">> \o label_query \o <<"' using operator '", search_operator, "' in dataset ">> \o PyStr(dataset_id)

\* The text of the dataset path once results_df is known.
FormatImages(df, label_query, search_operator, dataset_id) ==
    IF DfEmpty(df) THEN NoImagesText(label_query, search_operator, dataset_id)
    ELSE <<"Found ">> \o Digits(Len(df.rows)) \o <<" images with label '">> \o label_query
         \o <<"' using operator '", search_operator, "' in dataset ">> \o PyStr(dataset_id)
         \o <<".\n\nAvailable columns: ">> \o Join([k \in 1..Len(df.columns) |-> <<df.columns[k]>>], <<", ">>)
         \o <<"\n\nResults:\n">> \o Join(ImageBlocks(df), <<"\n---\n">>)

\* The text blob of one dataset record in the scan.
DatasetText(dataset) ==
    Lower(PyStr(DictGet(dataset, "name", StrV(<<>>))) \o <<" ">>
          \o PyStr(DictGet(dataset, "description", StrV(<<>>))) \o <<" ">>
          \o PyStr(DictGet(dataset, "type", StrV(<<>>))))

\* matching_datasets: the records whose blob contains the lowercased query.
MatchingDatasets(datasets_list, label_query) == SelectSeq(datasets_list, LAMBDA d : Contains(DatasetText(d), Lower(label_query)))

\* One block of the scan report.
MatchBlock(i, dataset) ==
    <<"\nDataset ">> \o Digits(i) \o <<":\nID: ">> \o PyStr(DictGet(dataset, "id", NA))
    \o <<"\nName: ">> \o PyStr(DictGet(dataset, "name", NA))
    \o <<"\nDescription: ">> \o PyStr(DictGet(dataset, "description", NoDescription))
    \o <<"\nType: ">> \o PyStr(DictGet(dataset, "type", NA))
    \o <<"\nStatus: ">> \o PyStr(DictGet(dataset, "status", NA)) \o <<"\n">>

NoDatasetsToSearchText == <<"No datasets found to search through.">>
NoMatchText(label_query) == <<"No datasets found matching the label query: '">> \o label_query \o <<"'">>

\* The text of the scan path once datasets_list is known.
FormatScan(datasets_list, label_query) ==
    IF datasets_list = <<>> THEN NoDatasetsToSearchText
    ELSE LET matching == MatchingDatasets(datasets_list, label_query)
         IN IF matching = <<>> THEN NoMatchText(label_query)
            ELSE <<"Found ">> \o Digits(Len(matching)) \o <<" datasets matching '">> \o label_query \o <<"':\n">>
                 \o Join([i \in 1..Len(matching) |-> MatchBlock(i, matching[i])], <<"\n---\n">>)

\* One block of get_all_datasets.
ListBlock(i, dataset) ==
    <<"\nDataset ">> \o Digits(i) \o <<":\nID: ">> \o PyStr(DictGet(dataset, "id", NA))
    \o <<"\nName: ">> \o PyStr(DictGet(dataset, "display_name", NA))
    \o <<"\nDescription: ">> \o PyStr(DictGet(dataset, "description", NoDescription))
    \o <<"\nCreated: ">> \o PyStr(DictGet(dataset, "created_at", NA))
    \o <<"\nStatus: ">> \o PyStr(DictGet(dataset, "status", NA)) \o <<"\n">>

\* The text of get_all_datasets once datasets_list is known.
FormatList(datasets_list) ==
    IF datasets_list = <<>> THEN <<"No datasets found.">>
    ELSE <<"Found ">> \o Digits(Len(datasets_list)) \o <<" datasets:\n">>
         \o Join([i \in 1..Len(datasets_list) |-> ListBlock(i, datasets_list[i])], <<"\n---\n">>)

\* The text of health_check once the status is known.
FormatHealth(health_status) == <<"\nVisual Layer API Health Check:\nStatus: ">> \o health_status \o <<"\nMessage: API is healthy and responding\n">>

\* The text of get_dataset_info once dataset_info (a dict, empty when the
\* frame has no row) is known.
FormatInfo(dataset_info, dataset_id) ==
    IF DOMAIN dataset_info = {} THEN <<"No dataset found with ID: ">> \o PyStr(dataset_id)
    ELSE <<"\nDataset Information:\nID: ">> \o PyStr(DictGet(dataset_info, "id", NA))
         \o <<"\nName: ">> \o PyStr(DictGet(dataset_info, "name", NA))
         \o <<"\nDescription: ">> \o PyStr(DictGet(dataset_info, "description", NoDescription))
         \o <<"\nCreated: ">> \o PyStr(DictGet(dataset_info, "created_at", NA))
         \o <<"\nStatus: ">> \o PyStr(DictGet(dataset_info, "status", NA))
         \o <<"\nType: ">> \o PyStr(DictGet(dataset_info, "type", NA))
         \o <<"\nSize: ">> \o PyStr(DictGet(dataset_info, "size", NA)) \o <<"\n">>

\* --------------------------------------------------------------------- state
VARIABLES
    VISUAL_LAYER_API_KEY,     \* module constant read from the environment at import
    VISUAL_LAYER_API_SECRET,  \* module constant read from the environment at import
    world,                    \* what the SDK and the remote service answer (unchanging)
    pc,                       \* pc[p]: where invocation slot p stands
    args,                     \* args[p]: the tool and the arguments of the invocation
    frame,                    \* frame[p]: the local variables of the invocation
    calls,                    \* calls[p]: the client operations invoked, in order
    result                    \* result[p]: what the invocation handed to the transport

vars == <<VISUAL_LAYER_API_KEY, VISUAL_LAYER_API_SECRET, world, pc, args, frame, calls, result>>

\* Local variables kept in one module-level place shared by all invocations.
SlotShared(p) == 1

\* The frame an invocation's local variables live in: its own.
Slot(p) == p

EmptyDf == [columns |-> <<>>, rows |-> <<>>]
NoHandle == <<"<unbound>">>
EmptyFrame == [client |-> FALSE, dataset |-> NoHandle, results_df |-> EmptyDf, datasets_list |-> <<>>, matching_datasets |-> <<>>, rendered |-> <<>>]

NoArgs == [tool |-> "none", label_query |-> <<>>, dataset_id |-> NoneV, search_operator |-> "IS_ONE_OF"]
SearchArgs(q, id, op) == [tool |-> "search_by_labels", label_query |-> q, dataset_id |-> id, search_operator |-> op]
ToolArgs(tool, id) == [tool |-> tool, label_query |-> <<>>, dataset_id |-> id, search_operator |-> "IS_ONE_OF"]

Call(op, arg, ok) == [op |-> op, arg |-> arg, ok |-> ok]

\* operator_map[search_operator]: a KeyError outside the four keys.
OperatorMap(search_operator) ==
    IF search_operator \in {"IS", "IS_NOT", "IS_ONE_OF", "IS_NOT_ONE_OF"} THEN Returned
    ELSE Raised(<<"'", search_operator, "'">>)

\* A step's effect: the next position, the returned text if any, the frame
\* and the client operations the step invoked.
Effect(next, res, fr, ops) == [pc |-> next, result |-> res, frame |-> fr, ops |-> ops]

\* After get_client() returned in search_by_labels: validation, then the branch.
AfterClient(a, fr) ==
    IF OperatorInvalid(a.search_operator) THEN Effect("done", ReturnText(InvalidOperatorText(a.search_operator)), fr, <<>>)
    ELSE IF DatasetIdGiven(a.dataset_id) THEN Effect("get_dataset_object", NoResult, fr, <<>>)
    ELSE Effect("scan", NoResult, fr, <<>>)

\* The position of a tool's one client call.
ToolCall(tool) ==
    CASE tool = "get_all_datasets" -> "list_datasets"
      [] tool = "health_check" -> "healthcheck"
      [] OTHER -> "get_dataset"

\* client = get_client() at the top of every tool, and what follows it
\* up to the tool's first client operation.
ClientStep(a, fr, key, secret, w) ==
    LET c == get_client(key, secret, w)
    IN IF ~c.ok THEN Effect("done", ToolBoundary(a.tool, c.err), fr, <<>>)
       ELSE IF a.tool = "search_by_labels" THEN AfterClient(a, [fr EXCEPT !.client = TRUE])
       ELSE Effect(ToolCall(a.tool), NoResult, [fr EXCEPT !.client = TRUE], <<>>)

\* A handler that falls back to the scan when the handle does not resolve.
HandleFailedFallsBack(a, fr, msg) == Effect("scan", NoResult, fr, <<Call("get_dataset_object", a.dataset_id.s, FALSE)>>)

\* The dataset path's handler when get_dataset_object raised.
HandleFailed(a, fr, msg) == Effect("done", DatasetBoundary(a.dataset_id, msg), fr, <<Call("get_dataset_object", a.dataset_id.s, FALSE)>>)

\* dataset = client.get_dataset_object(dataset_id)
HandleStep(a, fr, w) ==
    LET h == w.handle[a.dataset_id.s]
    IN IF ~h.ok THEN HandleFailed(a, fr, h.err)
       ELSE Effect("query", NoResult, [fr EXCEPT !.dataset = a.dataset_id.s], <<Call("get_dataset_object", a.dataset_id.s, TRUE)>>)

\* The client operations of the query, up to the one that raises.
QueryCalls(q, op) ==
    LET all == <<Call("search", <<>>, q.failAt # "search"),
                 Call("search_by_labels", <<op>>, q.failAt # "search_by_labels"),
                 Call("get_results", <<>>, q.failAt # "get_results")>>
        n == CASE q.failAt = "search" -> 1 [] q.failAt = "search_by_labels" -> 2 [] OTHER -> 3
    IN SubSeq(all, 1, n)

\* The rest of the dataset path: operator_map lookup, dataset.search(),
\* search_by_labels(labels, search_operator=search_op), get_results(), and
\* the report on results_df.
QueryStep(a, fr, w) ==
    LET m == OperatorMap(a.search_operator)
        q == w.query[fr.dataset]
    IN IF ~m.ok THEN Effect("done", DatasetBoundary(a.dataset_id, m.err), fr, <<>>)
       ELSE IF q.failAt # "none" THEN Effect("done", DatasetBoundary(a.dataset_id, q.err), fr, QueryCalls(q, a.search_operator))
       ELSE Effect("done", ReturnText(FormatImages(q.df, a.label_query, a.search_operator, a.dataset_id)),
                   [fr EXCEPT !.results_df = q.df, !.rendered = IF DfEmpty(q.df) THEN <<>> ELSE RenderedValues(q.df)],
                   QueryCalls(q, a.search_operator))

\* The scan path: client.get_all_datasets(), the filter and the report.
ScanStep(a, fr, w) ==
    IF ~w.listing.ok THEN Effect("done", SearchBoundary(w.listing.err), fr, <<Call("get_all_datasets", <<>>, FALSE)>>)
    ELSE Effect("done", ReturnText(FormatScan(w.listing.datasets, a.label_query)),
                [fr EXCEPT !.datasets_list = w.listing.datasets, !.matching_datasets = MatchingDatasets(w.listing.datasets, a.label_query)],
                <<Call("get_all_datasets", <<>>, TRUE)>>)

\* get_all_datasets after get_client().
ListStep(a, fr, w) ==
    IF ~w.listing.ok THEN Effect("done", ListBoundary(w.listing.err), fr, <<Call("get_all_datasets", <<>>, FALSE)>>)
    ELSE Effect("done", ReturnText(FormatList(w.listing.datasets)), [fr EXCEPT !.datasets_list = w.listing.datasets], <<Call("get_all_datasets", <<>>, TRUE)>>)

\* health_check after get_client().
HealthStep(a, fr, w) ==
    IF ~w.health.ok THEN Effect("done", HealthBoundary(w.health.err), fr, <<Call("healthcheck", <<>>, FALSE)>>)
    ELSE Effect("done", ReturnText(FormatHealth(w.health.status)), fr, <<Call("healthcheck", <<>>, TRUE)>>)

\* get_dataset_info after get_client().
InfoStep(a, fr, w) ==
    LET i == w.info[PyStr(a.dataset_id)]
    IN IF ~i.ok THEN Effect("done", InfoBoundary(i.err), fr, <<Call("get_dataset", PyStr(a.dataset_id), FALSE)>>)
       ELSE Effect("done", ReturnText(FormatInfo(i.dict, a.dataset_id)), fr, <<Call("get_dataset", PyStr(a.dataset_id), TRUE)>>)

\* One step of a tool's body from position pos.
StepAt(pos, a, fr, w) ==
    CASE pos = "get_dataset_object" -> HandleStep(a, fr, w)
      [] pos = "query" -> QueryStep(a, fr, w)
      [] pos = "scan" -> ScanStep(a, fr, w)
      [] pos = "list_datasets" -> ListStep(a, fr, w)
      [] pos = "healthcheck" -> HealthStep(a, fr, w)
      [] OTHER -> InfoStep(a, fr, w)

RECURSIVE RunFrom(_, _, _, _)
\* The body run from position pos to its return, nothing else running.
RunFrom(pos, a, fr, w) == LET e == StepAt(pos, a, fr, w) IN IF e.pc = "done" THEN e.result ELSE RunFrom(e.pc, a, e.frame, w)

\* What one invocation returns when it is the only one.
RunAlone(a, key, secret, w) == LET e == ClientStep(a, EmptyFrame, key, secret, w) IN IF e.pc = "done" THEN e.result ELSE RunFrom(e.pc, a, e.frame, w)

\* ------------------------------------------------------------------- actions
\* Applies a step's effect to invocation p.
Apply(p, e) ==
    /\ pc' = [pc EXCEPT ![p] = e.pc]
    /\ result' = [result EXCEPT ![p] = e.result]
    /\ frame' = [frame EXCEPT ![Slot(p)] = e.frame]
    /\ calls' = [calls EXCEPT ![p] = calls[p] \o e.ops]
    /\ UNCHANGED <<VISUAL_LAYER_API_KEY, VISUAL_LAYER_API_SECRET, world, args>>

\* The transport starts the coroutine of a tool call.
Begin(p, a) ==
    /\ pc[p] = "idle"
    /\ pc' = [pc EXCEPT ![p] = "get_client"]
    /\ args' = [args EXCEPT ![p] = a]
    /\ frame' = [frame EXCEPT ![Slot(p)] = EmptyFrame]
    /\ calls' = [calls EXCEPT ![p] = <<>>]
    /\ result' = [result EXCEPT ![p] = NoResult]
    /\ UNCHANGED <<VISUAL_LAYER_API_KEY, VISUAL_LAYER_API_SECRET, world>>

GetClient(p) ==
    /\ pc[p] = "get_client"
    /\ Apply(p, ClientStep(args[p], frame[Slot(p)], VISUAL_LAYER_API_KEY, VISUAL_LAYER_API_SECRET, world))

GetDatasetObject(p) ==
    /\ pc[p] = "get_dataset_object"
    /\ Apply(p, HandleStep(args[p], frame[Slot(p)], world))

Query(p) ==
    /\ pc[p] = "query"
    /\ Apply(p, QueryStep(args[p], frame[Slot(p)], world))

Scan(p) ==
    /\ pc[p] = "scan"
    /\ Apply(p, ScanStep(args[p], frame[Slot(p)], world))

ListDatasets(p) ==
    /\ pc[p] = "list_datasets"
    /\ Apply(p, ListStep(args[p], frame[Slot(p)], world))

HealthCheck(p) ==
    /\ pc[p] = "healthcheck"
    /\ Apply(p, HealthStep(args[p], frame[Slot(p)], world))

GetDatasetInfo(p) ==
    /\ pc[p] = "get_dataset"
    /\ Apply(p, InfoStep(args[p], frame[Slot(p)], world))

\* The transport takes the returned text; the slot is free again.
Return(p) ==
    /\ pc[p] = "done"
    /\ pc' = [pc EXCEPT ![p] = "idle"]
    /\ args' = [args EXCEPT ![p] = NoArgs]
    /\ frame' = [frame EXCEPT ![Slot(p)] = EmptyFrame]
    /\ calls' = [calls EXCEPT ![p] = <<>>]
    /\ result' = [result EXCEPT ![p] = NoResult]
    /\ UNCHANGED <<VISUAL_LAYER_API_KEY, VISUAL_LAYER_API_SECRET, world>>

\* ------------------------------------------------------ the upstream service
D1 == <<"d", "1">>
D0 == <<"d", "0">>
DQ == <<"d", "q">>
DS == <<"d", "s">>
DX == <<"d", "x">>
DatasetIds == {D1, D0, DQ, DS, DX}

SampleTable ==
    [columns |-> <<"image_id", "caption">>,
     rows |-> << [image_id |-> IntV(7), caption |-> StrV(<<"c", "a", "t">>)],
                 [image_id |-> IntV(12), caption |-> NoneV] >>]

NoRowsTable == [columns |-> <<"image_id", "caption">>, rows |-> <<>>]

SampleDatasets ==
    << [id |-> StrV(D1), name |-> StrV(<<"C", "a", "t", "s", " ", "d", "a", "t", "a", "s", "e", "t">>), status |-> StrV(<<"R", "E", "A", "D", "Y">>)],
       [id |-> StrV(D0), name |-> StrV(<<"D", "o", "g", "s">>), display_name |-> StrV(<<"D", "o", "g", "s">>)],
       [id |-> StrV(DQ), description |-> StrV(<<"f", "e", "l", "i", "n", "e", " ", "C", "A", "T", " ", "p", "h", "o", "t", "o", "s">>), type |-> NoneV] >>

ListingFails == [ok |-> FALSE, err |-> <<"Service unavailable">>, datasets |-> <<>>]
Listing(datasets) == [ok |-> TRUE, err |-> <<>>, datasets |-> datasets]

QueryOk(df) == [failAt |-> "none", err |-> <<>>, df |-> df]
QueryFails(at, msg) == [failAt |-> at, err |-> msg, df |-> EmptyDf]

\* What the SDK answers: d1 has rows (table), d0 has none, the query on dq
\* and ds raises, dx and the empty id do not resolve.
World(initFails, listing, table) ==
    [initFails |-> initFails,
     initError |-> <<"No module named 'visual_layer_sdk'">>,
     listing |-> listing,
     handle |-> [id \in DatasetIds \cup {<<>>} |-> IF id \in {DX, <<>>} THEN Raised(<<"Dataset not found">>) ELSE Returned],
     query |-> [id \in DatasetIds \cup {<<>>, NoHandle} |->
                  CASE id = D1 -> QueryOk(table)
                    [] id = D0 -> QueryOk(NoRowsTable)
                    [] id = DQ -> QueryFails("get_results", <<"Search request timed out">>)
                    [] id = DS -> QueryFails("search", <<"Dataset is not ready">>)
                    [] OTHER -> QueryFails("search", <<"'NoneType' object has no attribute 'search'">>)],
     health |-> [ok |-> listing.ok, err |-> <<"Connection refused">>, status |-> <<"o", "k">>],
     info |-> [id \in DatasetIds |->
                  CASE id = D1 -> [ok |-> TRUE, err |-> <<>>, dict |-> SampleDatasets[1]]
                    [] id = D0 -> [ok |-> TRUE, err |-> <<>>, dict |-> << >>]
                    [] OTHER -> [ok |-> FALSE, err |-> <<"Dataset not found">>, dict |-> << >>]]]

\* --------------------------------------------------------- the server (Spec)
CredentialValues == {NoneV, StrV(<<>>), StrV(<<"k", "1">>)}
Listings == {ListingFails, Listing(<<>>), Listing(SampleDatasets)}
Queries == {<<"c", "a", "t">>, <<"o", "w", "l">>}
IdArgs == {NoneV, StrV(<<>>)} \cup {StrV(id) : id \in DatasetIds}
OperatorArgs == {"IS", "IS_NOT", "IS_ONE_OF", "IS_NOT_ONE_OF", "LIKE", "is_one_of"}
SearchRequests == {SearchArgs(q, id, op) : q \in Queries, id \in IdArgs, op \in OperatorArgs}
OtherRequests == {ToolArgs("get_all_datasets", NoneV), ToolArgs("health_check", NoneV)} \cup {ToolArgs("get_dataset_info", StrV(id)) : id \in {D1, D0, DX}}
Requests == SearchRequests \cup OtherRequests

InitSlots ==
    /\ pc = [p \in Procs |-> "idle"]
    /\ args = [p \in Procs |-> NoArgs]
    /\ frame = [p \in Procs |-> EmptyFrame]
    /\ calls = [p \in Procs |-> <<>>]
    /\ result = [p \in Procs |-> NoResult]

Init ==
    /\ VISUAL_LAYER_API_KEY \in CredentialValues
    /\ VISUAL_LAYER_API_SECRET \in CredentialValues
    /\ \E f \in BOOLEAN, l \in Listings : world = World(f, l, SampleTable)
    /\ InitSlots

\* No tool awaits: the event loop runs one coroutine to its end before the next.
NoneRunning == \A q \in Procs : pc[q] = "idle"

Next ==
    \E p \in Procs :
        \/ \E a \in Requests : NoneRunning /\ Begin(p, a)
        \/ GetClient(p)
        \/ GetDatasetObject(p)
        \/ Query(p)
        \/ Scan(p)
        \/ ListDatasets(p)
        \/ HealthCheck(p)
        \/ GetDatasetInfo(p)
        \/ Return(p)

Spec == Init /\ [][Next]_vars

\* ------------------------------------------- concurrent invocations (SpecConc)
\* The same tools with the steps of several invocations interleaved at every
\* client operation, as a host running the calls on threads would.
ConcRequests == {SearchArgs(<<"c", "a", "t">>, id, op) : id \in {NoneV, StrV(D1), StrV(D0), StrV(DX)}, op \in {"IS_ONE_OF", "LIKE"}}

InitConc ==
    /\ VISUAL_LAYER_API_KEY = StrV(<<"k", "1">>)
    /\ VISUAL_LAYER_API_SECRET = StrV(<<"s", "1">>)
    /\ \E l \in {ListingFails, Listing(SampleDatasets)} : world = World(FALSE, l, SampleTable)
    /\ InitSlots

NextConc ==
    \E p \in Procs :
        \/ \E a \in ConcRequests : Begin(p, a)
        \/ GetClient(p)
        \/ GetDatasetObject(p)
        \/ Query(p)
        \/ Scan(p)
        \/ Return(p)

SpecConc == InitConc /\ [][NextConc]_vars

\* --------------------------------------------------- the scan path (SpecScan)
Absent == [t |-> "absent", s |-> <<>>, n |-> 0]

\* A metadata record with the given name, description and type; Absent
\* leaves the key out.
MetadataRecord(name, description, type) ==
    LET given == [name |-> name, description |-> description, type |-> type]
    IN [k \in {f \in {"name", "description", "type"} : given[f] # Absent} |-> given[k]]

ScanRecords ==
    {MetadataRecord(n, d, t) :
        n \in {Absent, NoneV, StrV(<<"C", "a", "t", "s">>), StrV(<<"D", "o", "g", "s">>)},
        d \in {Absent, StrV(<<"C", "A", "T">>)},
        t \in {Absent, NoneV}}

RECURSIVE ListsUpTo(_, _)
\* The lists of at most n elements of S.
ListsUpTo(S, n) == IF n = 0 THEN {<<>>} ELSE LET shorter == ListsUpTo(S, n - 1) IN shorter \cup {Append(l, x) : l \in {m \in shorter : Len(m) = n - 1}, x \in S}

ScanRequests == {SearchArgs(q, id, "IS_ONE_OF") : q \in {<<"c", "a", "t">>, <<"o", "n">>, <<"s", " ", "c">>}, id \in {NoneV, StrV(<<>>)}}

InitScan ==
    /\ VISUAL_LAYER_API_KEY = StrV(<<"k", "1">>)
    /\ VISUAL_LAYER_API_SECRET = StrV(<<"s", "1">>)
    /\ \E l \in ListsUpTo(ScanRecords, MaxDatasets) : world = World(FALSE, Listing(l), SampleTable)
    /\ InitSlots

NextScan ==
    \E p \in Procs :
        \/ \E a \in ScanRequests : NoneRunning /\ Begin(p, a)
        \/ GetClient(p)
        \/ Scan(p)
        \/ Return(p)

SpecScan == InitScan /\ [][NextScan]_vars

\* ------------------------------------------- the image formatter (SpecFormat)
\* A text of n characters whose characters differ with the position.
TextOfLen(n) == [i \in 1..n |-> <<"a", "b", "c">>[(i % 3) + 1]]

CaptionLengths == {0, TruncateAt - 1, TruncateAt, TruncateAt + 1, TruncateAt + 50}

FormatRows == {[image_id |-> v, caption |-> StrV(TextOfLen(n))] : v \in {IntV(7), NoneV}, n \in CaptionLengths}

FormatTables == {[columns |-> <<"image_id", "caption">>, rows |-> r] : r \in ListsUpTo(FormatRows, MaxRows)}

FormatRequests == {SearchArgs(<<"c", "a", "t">>, StrV(D1), op) : op \in {"IS", "IS_NOT_ONE_OF"}}

InitFormat ==
    /\ VISUAL_LAYER_API_KEY = StrV(<<"k", "1">>)
    /\ VISUAL_LAYER_API_SECRET = StrV(<<"s", "1">>)
    /\ \E t \in FormatTables : world = World(FALSE, Listing(SampleDatasets), t)
    /\ InitSlots

NextFormat ==
    \E p \in Procs :
        \/ \E a \in FormatRequests : NoneRunning /\ Begin(p, a)
        \/ GetClient(p)
        \/ GetDatasetObject(p)
        \/ Query(p)
        \/ Return(p)

SpecFormat == InitFormat /\ [][NextFormat]_vars

\* -------------------------------------------------------------------- claims
RecognizedOperators == {"IS", "IS_NOT", "IS_ONE_OF", "IS_NOT_ONE_OF"}
IsSearch(p) == args[p].tool = "search_by_labels"
Running(p) == pc[p] \notin {"idle", "done"}
Invoked(p, op) == \E i \in 1..Len(calls[p]) : calls[p][i].op = op
TimesInvoked(p, op) == Cardinality({i \in 1..Len(calls[p]) : calls[p][i].op = op})
HasAtom(text, atom) == \E i \in 1..Len(text) : text[i] = atom
Present(id) == id.t = "str" /\ Len(id.s) > 0
SecretUnset(v) == v.t = "none" \/ (v.t = "str" /\ v.s = <<>>)
ClientAvailable == ~SecretUnset(VISUAL_LAYER_API_KEY) /\ ~SecretUnset(VISUAL_LAYER_API_SECRET) /\ ~world.initFails
ErrorHeads == {"Error searching dataset ", "Error searching datasets by labels: "}
NoResultHeads == {"No images found with label '", "No datasets found to search through.", "No datasets found matching the label query: '"}
RejectionHead == "Invalid search operator '"
DatasetPathOps == {"get_dataset_object", "search", "search_by_labels", "get_results"}
QueryOps == {"search", "search_by_labels", "get_results"}

\* C1: search_by_labels is total. An invocation never hands an exception to
\* the transport; while it has not finished it can always take its next step
\* and has returned nothing; when it has finished it has returned exactly one
\* non-empty text, which is a success report, a "no results" sentence, the
\* rejection of the operator or a failure description.
C1_SearchIsTotal ==
    \A p \in Procs :
        /\ result[p].kind # "raise"
        /\ pc[p] # "done" => result[p] = NoResult
        /\ (IsSearch(p) /\ Running(p)) => ENABLED (GetClient(p) \/ GetDatasetObject(p) \/ Query(p) \/ Scan(p))
        /\ (IsSearch(p) /\ pc[p] = "done") =>
              /\ result[p].kind = "return"
              /\ result[p].text # <<>>
              /\ result[p].text[1] \in {"Found ", RejectionHead} \cup NoResultHeads \cup ErrorHeads

\* A search whose metadata retrieval raised has returned the failure text.
C1_Witness ==
    \E p \in Procs :
        /\ IsSearch(p) /\ pc[p] = "done"
        /\ calls[p] = <<Call("get_all_datasets", <<>>, FALSE)>>
        /\ result[p] = ReturnText(<<"Error searching datasets by labels: ", "Service unavailable">>)

\* C2: with an operator outside {IS, IS_NOT, IS_ONE_OF, IS_NOT_ONE_OF} an
\* invocation of search_by_labels invokes no client operation at any point
\* (no get_dataset_object, no search/search_by_labels/get_results, no
\* get_all_datasets), whatever the dataset id and the query, and it ends
\* without a report: with the rejection, or with the failure of get_client.
C2_InvalidOperatorNoRemoteCall ==
    \A p \in Procs :
        (IsSearch(p) /\ args[p].search_operator \notin RecognizedOperators) =>
            /\ calls[p] = <<>>
            /\ pc[p] \in {"get_client", "done"}
            /\ pc[p] = "done" => (result[p].kind = "return" /\ result[p].text[1] \in {RejectionHead, "Error searching datasets by labels: "})

\* With a client at hand and a dataset id given, "LIKE" is rejected and
\* nothing was called.
C2_Witness ==
    \E p \in Procs :
        /\ IsSearch(p) /\ pc[p] = "done" /\ frame[p].client
        /\ args[p].search_operator = "LIKE" /\ args[p].dataset_id = StrV(D1)
        /\ calls[p] = <<>>
        /\ result[p].text[1] = RejectionHead

\* The validator's message: the offending value and the four valid choices.
IsRejectionOf(text, op) == text[1] = RejectionHead /\ text[2] = op /\ \A v \in RecognizedOperators : HasAtom(text, v)

\* C3 as stated: whatever the credentials and the client, an invocation
\* with an operator outside the four ends with the validator's message.
C3_AsStated ==
    \A p \in Procs :
        (IsSearch(p) /\ args[p].search_operator \notin RecognizedOperators /\ pc[p] = "done") =>
            IsRejectionOf(result[p].text, args[p].search_operator)

\* C3 (amended): an invocation with an operator outside the four ends, with
\* no client operation invoked, with the validator's message (the offending
\* value and the four valid choices) when get_client() succeeds; when
\* get_client() fails (a credential unset, or the client's construction
\* raising) it ends with that failure's text instead, since the client is
\* obtained before the operator is checked.
C3_RejectionAfterClient ==
    \A p \in Procs :
        (IsSearch(p) /\ args[p].search_operator \notin RecognizedOperators /\ pc[p] = "done") =>
            /\ calls[p] = <<>>
            /\ result[p].kind = "return"
            /\ IF ClientAvailable THEN IsRejectionOf(result[p].text, args[p].search_operator)
               ELSE result[p].text[1] = "Error searching datasets by labels: "

\* The rejection of "is_one_of" on the scan path's arguments.
C3_Witness ==
    \E p \in Procs :
        /\ IsSearch(p) /\ pc[p] = "done" /\ ClientAvailable
        /\ args[p].search_operator = "is_one_of" /\ args[p].dataset_id = NoneV
        /\ IsRejectionOf(result[p].text, "is_one_of")

\* C4: once the operator has been validated the path depends on the dataset
\* id alone. With a present, non-empty id the invocation is on the dataset
\* path (first get_dataset_object) and never invokes get_all_datasets; with
\* an absent or empty id it is on the scan path (get_all_datasets only) and
\* never requests a handle or a search.
C4_PathByDatasetId ==
    \A p \in Procs :
        (IsSearch(p) /\ ClientAvailable /\ args[p].search_operator \in RecognizedOperators) =>
            IF Present(args[p].dataset_id)
            THEN /\ pc[p] \in {"get_client", "get_dataset_object", "query", "done"}
                 /\ ~Invoked(p, "get_all_datasets")
                 /\ pc[p] \in {"query", "done"} => calls[p][1].op = "get_dataset_object"
            ELSE /\ pc[p] \in {"get_client", "scan", "done"}
                 /\ \A op \in DatasetPathOps : ~Invoked(p, op)
                 /\ pc[p] = "done" => (Len(calls[p]) = 1 /\ calls[p][1].op = "get_all_datasets")

\* An empty dataset id has been through the scan.
C4_Witness ==
    \E p \in Procs :
        /\ IsSearch(p) /\ pc[p] = "done"
        /\ args[p].dataset_id = StrV(<<>>) /\ args[p].search_operator = "IS_NOT"
        /\ calls[p] = <<Call("get_all_datasets", <<>>, TRUE)>>
        /\ result[p].text[1] = "Found "

\* C5: with the API key or the API secret unset, no invocation of any of
\* the four tools invokes a client operation, none raises, and each ends
\* with a text that carries the configuration-error message.
C5_NoCredentialsNoCall ==
    (SecretUnset(VISUAL_LAYER_API_KEY) \/ SecretUnset(VISUAL_LAYER_API_SECRET)) =>
        \A p \in Procs :
            /\ calls[p] = <<>>
            /\ pc[p] \in {"idle", "get_client", "done"}
            /\ result[p].kind # "raise"
            /\ pc[p] = "done" =>
                  /\ result[p].kind = "return"
                  /\ HasAtom(result[p].text, "API credentials not found. Please set VISUAL_LAYER_API_KEY and VISUAL_LAYER_API_SECRET")

\* get_dataset_info with the key set and the secret absent.
C5_Witness ==
    \E p \in Procs :
        /\ pc[p] = "done" /\ args[p].tool = "get_dataset_info"
        /\ VISUAL_LAYER_API_KEY = StrV(<<"k", "1">>) /\ VISUAL_LAYER_API_SECRET = NoneV
        /\ result[p].text[1] = "Error getting dataset info: "

\* The remote operations of an invocation of search_by_labels: the handle
\* lookup, the query (search, search_by_labels, get_results) and the listing.
RemoteOperations(p) ==
    (IF Invoked(p, "get_dataset_object") THEN {"handle"} ELSE {})
    \cup (IF \E op \in QueryOps : Invoked(p, op) THEN {"query"} ELSE {})
    \cup (IF Invoked(p, "get_all_datasets") THEN {"listing"} ELSE {})

\* No client operation twice, and nothing after a failure, which is reported.
NoRetry(p) ==
    /\ \A op \in DatasetPathOps \cup {"get_all_datasets"} : TimesInvoked(p, op) <= 1
    /\ \A i \in 1..Len(calls[p]) : ~calls[p][i].ok => i = Len(calls[p])
    /\ (calls[p] # <<>> /\ ~calls[p][Len(calls[p])].ok) => (pc[p] = "done" /\ result[p].kind = "return" /\ result[p].text[1] \in ErrorHeads)

\* C6 as stated: no retry, and a single remote round trip on the dataset path.
C6_AsStated ==
    \A p \in Procs :
        IsSearch(p) => (NoRetry(p) /\ (Present(args[p].dataset_id) => Cardinality(RemoteOperations(p)) <= 1))

\* C6 (amended): within one invocation of search_by_labels each client
\* operation is invoked at most once, once one has failed no further one is
\* invoked and the failure is reported; the scan path performs one remote
\* operation, and the dataset path up to two in a row, the handle lookup
\* and then the query (search, search_by_labels, get_results), not one.
C6_NoRetry ==
    \A p \in Procs :
        IsSearch(p) =>
            /\ NoRetry(p)
            /\ [i \in 1..Len(calls[p]) |-> calls[p][i].op] \in
                   {<<"get_all_datasets">>} \cup {SubSeq(<<"get_dataset_object", "search", "search_by_labels", "get_results">>, 1, n) : n \in 0..4}

\* A query that raised in get_results after the handle resolved.
C6_Witness ==
    \E p \in Procs :
        /\ IsSearch(p) /\ pc[p] = "done" /\ args[p].dataset_id = StrV(DQ)
        /\ Len(calls[p]) = 4 /\ calls[p][1].ok /\ ~calls[p][4].ok
        /\ result[p].text[1] = "Error searching dataset "

\* The blob of C7: name, description and type, a missing or null field
\* contributing the empty string, lowercased.
ClaimField(d, k) == IF k \in DOMAIN d /\ d[k].t = "str" THEN d[k].s ELSE <<>>
ClaimBlob(d) == Lower(ClaimField(d, "name") \o <<" ">> \o ClaimField(d, "description") \o <<" ">> \o ClaimField(d, "type"))

\* C7 as stated: on the scan path, for a non-empty query, the datasets
\* reported are exactly the records whose blob (missing and null fields
\* empty) contains the lowercased query, in the client's order.
C7_AsStated ==
    \A p \in Procs :
        (IsSearch(p) /\ pc[p] = "done" /\ calls[p] = <<Call("get_all_datasets", <<>>, TRUE)>> /\ args[p].label_query # <<>>) =>
            frame[p].matching_datasets = SelectSeq(world.listing.datasets, LAMBDA d : Contains(ClaimBlob(d), Lower(args[p].label_query)))

\* What the code does keep of C7: when no field of a record is null the
\* datasets reported are those whose blob contains the lowercased query.
C7_WithoutNullFields ==
    \A p \in Procs :
        (IsSearch(p) /\ pc[p] = "done" /\ calls[p] = <<Call("get_all_datasets", <<>>, TRUE)>> /\ args[p].label_query # <<>>
         /\ \A i \in 1..Len(world.listing.datasets) : \A k \in DOMAIN world.listing.datasets[i] : world.listing.datasets[i][k].t = "str") =>
            frame[p].matching_datasets = SelectSeq(world.listing.datasets, LAMBDA d : Contains(ClaimBlob(d), Lower(args[p].label_query)))

\* The parts of a report: the header, a numbered block, the delimiter.
HasReportParts(text) == HasAtom(text, "Found ") \/ HasAtom(text, "\nResult ") \/ HasAtom(text, "\nDataset ") \/ HasAtom(text, "\n---\n")

\* C8: a result set without rows yields the "No images found" sentence with
\* the query, the operator and the dataset id; an empty dataset list and an
\* empty set of matches yield a "No datasets found" sentence; none has a
\* header, a numbered block or a delimiter, and none is an error text.
C8_EmptyIsOneSentence ==
    \A p \in Procs :
        (IsSearch(p) /\ pc[p] = "done" /\ calls[p] # <<>> /\ calls[p][Len(calls[p])].ok) =>
            /\ (Present(args[p].dataset_id) /\ world.query[args[p].dataset_id.s].df.rows = <<>>) =>
                  /\ result[p].text = <<"No images found with label '">> \o args[p].label_query
                                      \o <<"' using operator '", args[p].search_operator, "' in dataset ">> \o args[p].dataset_id.s
                  /\ ~HasReportParts(result[p].text)
            /\ (~Present(args[p].dataset_id) /\ world.listing.datasets = <<>>) =>
                  result[p].text = <<"No datasets found to search through.">>
            /\ (~Present(args[p].dataset_id) /\ world.listing.datasets # <<>> /\ frame[p].matching_datasets = <<>>) =>
                  /\ result[p].text = <<"No datasets found matching the label query: '">> \o args[p].label_query \o <<"'">>
                  /\ ~HasReportParts(result[p].text)

\* The query on d0 returned no row.
C8_Witness ==
    \E p \in Procs :
        /\ IsSearch(p) /\ pc[p] = "done" /\ args[p].dataset_id = StrV(D0)
        /\ Len(calls[p]) = 4 /\ calls[p][4].ok
        /\ result[p].text[1] = "No images found with label '"

\* C9: in the image report a string value longer than 200 characters is
\* rendered as its first 200 characters and "..." (203 characters), any
\* other value as it is, each on its `column: value` line, and the result
\* set is the one the client returned.
C9_Truncation ==
    \A p \in Procs :
        (IsSearch(p) /\ pc[p] = "done" /\ Invoked(p, "get_results") /\ calls[p][Len(calls[p])].ok /\ frame[p].results_df.rows # <<>>) =>
            /\ frame[p].results_df = world.query[args[p].dataset_id.s].df
            /\ Len(frame[p].rendered) = Len(frame[p].results_df.rows)
            /\ \A i \in 1..Len(frame[p].results_df.rows) : \A k \in 1..Len(frame[p].results_df.columns) :
                  LET c == frame[p].results_df.columns[k]
                      v == frame[p].results_df.rows[i][c]
                      r == frame[p].rendered[i][c]
                  IN /\ (v.t = "str" /\ Len(v.s) > 200) => (Len(r) = 203 /\ SubSeq(r, 1, 200) = SubSeq(v.s, 1, 200) /\ SubSeq(r, 201, 203) = <<".", ".", ".">>)
                     /\ (v.t = "str" /\ Len(v.s) <= 200) => r = v.s
                     /\ v.t = "int" => r = Digits(v.n)
                     /\ v.t = "none" => r = <<"N", "o", "n", "e">>
                     /\ Contains(result[p].text, <<c, ": ">> \o r \o <<"\n">>)

\* A report with a caption of 250 characters and one of exactly 200.
C9_Witness ==
    \E p \in Procs :
        /\ IsSearch(p) /\ pc[p] = "done" /\ Len(frame[p].results_df.rows) = 2
        /\ Len(frame[p].results_df.rows[1]["caption"].s) = 250 /\ Len(frame[p].rendered[1]["caption"]) = 203
        /\ Len(frame[p].results_df.rows[2]["caption"].s) = 200 /\ Len(frame[p].rendered[2]["caption"]) = 200

\* Every finished invocation returned what it returns when run alone.
SameAsAlone == \A p \in Procs : pc[p] = "done" => result[p] = RunAlone(args[p], VISUAL_LAYER_API_KEY, VISUAL_LAYER_API_SECRET, world)

\* A step of one invocation leaves the others' state and the module's alone.
StepIsPrivate ==
    /\ VISUAL_LAYER_API_KEY' = VISUAL_LAYER_API_KEY /\ VISUAL_LAYER_API_SECRET' = VISUAL_LAYER_API_SECRET /\ world' = world
    /\ \A p \in Procs : \A q \in Procs \ {p} :
          (pc'[p] # pc[p] \/ frame'[p] # frame[p] \/ calls'[p] # calls[p] \/ result'[p] # result[p] \/ args'[p] # args[p]) =>
              (pc'[q] = pc[q] /\ frame'[q] = frame[q] /\ calls'[q] = calls[q] /\ result'[q] = result[q] /\ args'[q] = args[q])

\* C10: under every interleaving of the invocations' steps against the same
\* upstream data each invocation returns the text it returns when it runs
\* alone, and no step of one invocation changes the state of another or the
\* module's state.
C10_Independent == [](SameAsAlone) /\ [][StepIsPrivate]_vars

\* Two invocations on different datasets, both between handle and query.
C10_Witness ==
    \E p \in Procs : \E q \in Procs \ {p} :
        /\ pc[p] = "query" /\ pc[q] = "query"
        /\ frame[p].dataset = D1 /\ frame[q].dataset = D0
====
